---- MODULE Spec2Model ----
(***************************************************************************)
(* Model of the automated retraining pipeline:                             *)
(*   - src/lambda/pipeline_trigger.py : trigger / dedup handler            *)
(*   - src/ml/pipeline_terraform.py   : pipeline definition (tune ->       *)
(*                                      evaluate -> conditional register)  *)
(*   - src/ml/prepare_data.py         : three-way data splitter            *)
(*   - src/ml/training/train.py       : training entry point               *)
(* Strings that the code formats character by character (the execution     *)
(* name) are sequences of one-character strings.  A response body is the   *)
(* dict handed to json.dumps (json.dumps is injective on these dicts).     *)
(***************************************************************************)
EXTENDS Integers, Sequences, FiniteSets, TLC

VARIABLES
    environ,      \* os.environ of the Lambda deployment
    executions,   \* the pipeline's executions in the service, oldest first
    now,          \* seconds elapsed on the UTC clock since BaseEpoch
    inv,          \* per concurrent Lambda invocation: locals of handler()
    run,          \* one run of the defined pipeline (the service's view)
    split,        \* one call of prepare_three_way_split()
    job           \* one run of the training script train.py

vars == <<environ, executions, now, inv, run, split, job>>

(***************************************************************************)
(* Bounds of the model                                                     *)
(***************************************************************************)
MaxExecs == 3       \* executions the store may hold in Spec
MaxTicks == 2       \* clock ticks explored
MaxListed == 6      \* pre-existing executions drawn in SpecWindow
MaxTest == 10       \* rows of the held-out test partition
MaxPerClass == 3    \* rows per label value in the raw dataset
MaxRounds == 2      \* boosting rounds (--num_round) of a training run
MaxValFiles == 2    \* files in the validation directory

\* 2025-12-31 23:59:58 UTC: two ticks roll every field of the timestamp over
BaseEpoch == 1767225600 - 2

Lambdas == {1, 2}
Sequential == {1}

(***************************************************************************)
(* src/lambda/pipeline_trigger.py                                          *)
(***************************************************************************)
PipelineName == "iris-xgboost-pipeline-tf"

\* os.environ as deployed: PIPELINE_NAME unset, empty, or set
Environs ==
    { [AWS_REGION |-> "us-east-1"],
      [AWS_REGION |-> "us-east-1", PIPELINE_NAME |-> ""],
      [AWS_REGION |-> "us-east-1", PIPELINE_NAME |-> PipelineName] }

\* (mutant: only None counts as missing)
FalsyNoneOnly(v) == ~v.present

\* os.environ.get(k): None when the key is absent
EnvGet(env, k) ==
    IF k \in DOMAIN env THEN [present |-> TRUE, value |-> env[k]]
    ELSE [present |-> FALSE, value |-> ""]

\* `not pipeline_name`: None and "" are both falsy
Falsy(v) == ~v.present \/ v.value = ""

Buckets == {"b"}
Keys == {"data/train/new.csv", "data/train/more.csv"}

\* EventBridge events: the documented shape, and the shapes that miss one
\* of the keys the handler indexes
WellFormedEvents ==
    { [detail |-> [bucket |-> [name |-> b], object |-> [key |-> k]]] :
        b \in Buckets, k \in Keys }

MalformedEvents ==
    { [source |-> "aws.s3"],
      [detail |-> [object |-> [key |-> "data/train/new.csv"]]],
      [detail |-> [bucket |-> [arn |-> "arn:aws:s3:::b"],
                   object |-> [key |-> "data/train/new.csv"]]],
      [detail |-> [bucket |-> [name |-> "b"]]],
      [detail |-> [bucket |-> [name |-> "b"], object |-> [size |-> "1"]]] }

Events == WellFormedEvents \cup MalformedEvents

\* event['detail']['bucket']['name'] then event['detail']['object']['key'],
\* evaluated left to right; the first missing key raises KeyError(key)
MissingKey(ev) ==
    IF "detail" \notin DOMAIN ev THEN "detail"
    ELSE IF "bucket" \notin DOMAIN ev.detail THEN "bucket"
    ELSE IF "name" \notin DOMAIN ev.detail.bucket THEN "name"
    ELSE IF "object" \notin DOMAIN ev.detail THEN "object"
    ELSE IF "key" \notin DOMAIN ev.detail.object THEN "key"
    ELSE ""

\* PipelineExecutionStatus vocabulary of the service
Statuses == {"Executing", "Stopping", "Stopped", "Failed", "Succeeded"}

\* (mutant: the Stopping status forgotten)
active_statuses_ExecutingOnly == {"Executing"}

active_statuses == {"Executing", "Stopping"}

MaxResults == 5

ManualName == <<"m", "a", "n", "u", "a", "l">>

\* list_pipeline_executions(SortBy=CreationTime, SortOrder=Descending,
\* MaxResults=5): the newest executions first, at most MaxResults of them
ListPipelineExecutions(store) ==
    LET n == Len(store)
        m == IF n < MaxResults THEN n ELSE MaxResults
    IN  [j \in 1..m |->
            [PipelineExecutionArn |-> n + 1 - j,
             PipelineExecutionStatus |-> store[n + 1 - j].status]]

RECURSIVE FirstActive(_, _)
\* the for loop of is_pipeline_running from position j on
FirstActive(summaries, j) ==
    IF j > Len(summaries) THEN FALSE
    ELSE IF summaries[j].PipelineExecutionStatus \in active_statuses THEN TRUE
    ELSE FirstActive(summaries, j + 1)

\* (mutant: a failed listing counts as running)
is_pipeline_running_FailClosed(listOk, store) ==
    IF listOk THEN FirstActive(ListPipelineExecutions(store), 1)
    ELSE TRUE

\* is_pipeline_running: listOk is whether list_pipeline_executions returned
is_pipeline_running(listOk, store) ==
    IF listOk THEN FirstActive(ListPipelineExecutions(store), 1)
    ELSE FALSE

Digits == <<"0", "1", "2", "3", "4", "5", "6", "7", "8", "9">>

RECURSIVE Decimal(_)
Decimal(n) ==
    IF n < 10 THEN <<Digits[n + 1]>>
    ELSE Decimal(n \div 10) \o <<Digits[(n % 10) + 1]>>

\* (mutant: a field formatted without zero padding)
Pad2Unpadded(n) == Decimal(n)

\* %m, %d, %H, %M, %S: two digits, zero padded
Pad2(n) == <<Digits[(n \div 10) + 1], Digits[(n % 10) + 1]>>

\* the proleptic Gregorian date of a day number counted from 1970-01-01
CivilFromDays(days) ==
    LET z == days + 719468
        era == z \div 146097
        doe == z - era * 146097
        yoe == (doe - doe \div 1460 + doe \div 36524 - doe \div 146096) \div 365
        doy == doe - (365 * yoe + yoe \div 4 - yoe \div 100)
        mp == (5 * doy + 2) \div 153
        d == doy - (153 * mp + 2) \div 5 + 1
        m == IF mp < 10 THEN mp + 3 ELSE mp - 9
        y == yoe + era * 400 + (IF m <= 2 THEN 1 ELSE 0)
    IN  [year |-> y, month |-> m, day |-> d]

\* datetime.utcnow() at clock reading t
UtcNow(t) ==
    LET s == BaseEpoch + t
        date == CivilFromDays(s \div 86400)
        sod == s % 86400
    IN  [year |-> date.year, month |-> date.month, day |-> date.day,
         hour |-> sod \div 3600, minute |-> (sod % 3600) \div 60,
         second |-> sod % 60]

\* strftime('%Y%m%d-%H%M%S')
Strftime(dt) ==
    Decimal(dt.year) \o Pad2(dt.month) \o Pad2(dt.day) \o <<"-">>
        \o Pad2(dt.hour) \o Pad2(dt.minute) \o Pad2(dt.second)

AutoTriggerPrefix ==
    <<"a", "u", "t", "o", "-", "t", "r", "i", "g", "g", "e", "r", "-">>

\* f"auto-trigger-{timestamp}"
ExecutionName(t) == AutoTriggerPrefix \o Strftime(UtcNow(t))

\* PipelineParameters of the start call
StartParameters == <<[Name |-> "InstanceType", Value |-> "ml.m5.large"]>>

NoResponse == [statusCode |-> 0, body |-> [none |-> TRUE]]
NoRequest == [none |-> TRUE]

ConfigErrorResponse ==
    [statusCode |-> 500,
     body |-> [error |-> "PIPELINE_NAME environment variable not set"]]

\* (mutant: the KeyError handler answers 500)
KeyErrorResponseAs500(key) ==
    [statusCode |-> 500,
     body |-> [error |-> [text |-> "Invalid event structure", key |-> key]]]

\* except KeyError: 400, "Invalid event structure: <key>"
KeyErrorResponse(key) ==
    [statusCode |-> 400,
     body |-> [error |-> [text |-> "Invalid event structure", key |-> key]]]

\* (mutant: the generic handler answers 400)
ExceptionResponseAs400 ==
    [statusCode |-> 400,
     body |-> [error |-> [text |-> "Error starting pipelinel",
                          key |-> "ClientError"]]]

\* except Exception: 500, "Error starting pipelinel: <e>"
ExceptionResponse ==
    [statusCode |-> 500,
     body |-> [error |-> [text |-> "Error starting pipelinel",
                          key |-> "ClientError"]]]

SkippedResponse(pipeline_name, bucket_name, object_key) ==
    [statusCode |-> 200,
     body |-> [message |-> "Skipped - pipeline already executing",
               pipeline_name |-> pipeline_name,
               trigger |-> [bucket |-> bucket_name, key |-> object_key]]]

StartedResponse(pipeline_name, execution_arn, bucket_name, object_key) ==
    [statusCode |-> 200,
     body |-> [message |-> "Pipeline execution started",
               pipeline_name |-> pipeline_name,
               execution_arn |-> execution_arn,
               trigger |-> [bucket |-> bucket_name, key |-> object_key]]]

\* locals of one handler() invocation, and what it has done so far
IdleInvocation ==
    [pc |-> "idle", event |-> [none |-> TRUE], bucket_name |-> "",
     object_key |-> "", execution_name |-> <<>>, response |-> NoResponse,
     inspected |-> FALSE, listCalls |-> 0, listOk |-> FALSE,
     activeAny |-> FALSE, activeRecent |-> FALSE, stampedAt |-> 0,
     startCalls |-> 0, startOk |-> FALSE, startRequest |-> NoRequest,
     created |-> 0]

InFlight == {i \in Lambdas : inv[i].pc \in {"check", "start"}}

\* handler() up to the dedup check: configuration, then the event's fields
\* (cap bounds the store: no invocation is admitted that could overflow it)
HandlerInvoke(i, ev, cap) ==
    /\ inv[i].pc = "idle"
    /\ Len(executions) + Cardinality(InFlight) < cap
    /\ LET pipeline_name == EnvGet(environ, "PIPELINE_NAME")
           entered == [IdleInvocation EXCEPT !.event = ev]
       IN  inv' = [inv EXCEPT ![i] =
              IF Falsy(pipeline_name)
              THEN [entered EXCEPT !.pc = "done",
                                   !.response = ConfigErrorResponse]
              ELSE IF MissingKey(ev) # ""
              THEN [entered EXCEPT !.pc = "done", !.inspected = TRUE,
                                   !.response = KeyErrorResponse(MissingKey(ev))]
              ELSE [entered EXCEPT !.pc = "check", !.inspected = TRUE,
                                   !.bucket_name = ev.detail.bucket.name,
                                   !.object_key = ev.detail.object.key]]
    /\ UNCHANGED <<job, environ, executions, now, run, split>>

\* some execution of the store / of its MaxResults newest is active
AnyActive(store) ==
    \E k \in 1..Len(store) : store[k].status \in {"Executing", "Stopping"}

RecentActive(store) ==
    \E k \in 1..Len(store) :
        /\ k > Len(store) - 5
        /\ store[k].status \in {"Executing", "Stopping"}

\* the dedup check: is_pipeline_running, then either the skip response or
\* the execution name from the clock
HandlerCheck(i, listOk) ==
    /\ inv[i].pc = "check"
    /\ LET l == inv[i]
           checked == [l EXCEPT !.listCalls = l.listCalls + 1,
                                !.listOk = listOk,
                                !.activeAny = AnyActive(executions),
                                !.activeRecent = RecentActive(executions)]
       IN  inv' = [inv EXCEPT ![i] =
              IF is_pipeline_running(listOk, executions)
              THEN [checked EXCEPT !.pc = "done",
                       !.response = SkippedResponse(environ.PIPELINE_NAME,
                                        l.bucket_name, l.object_key)]
              ELSE [checked EXCEPT !.pc = "start",
                       !.stampedAt = now,
                       !.execution_name = ExecutionName(now)]]
    /\ UNCHANGED <<job, environ, executions, now, run, split>>

\* (mutant: a failed start call is tried again)
HandlerStartRetry(i, startOk) ==
    /\ inv[i].pc = "start"
    /\ LET l == inv[i]
           execution_arn == Len(executions) + 1
       IN  IF startOk
           THEN /\ executions' = Append(executions,
                       [name |-> l.execution_name, status |-> "Executing"])
                /\ inv' = [inv EXCEPT ![i] =
                       [l EXCEPT !.pc = "done", !.startCalls = l.startCalls + 1,
                           !.startOk = TRUE, !.created = execution_arn,
                           !.response = StartedResponse(environ.PIPELINE_NAME,
                               execution_arn, l.bucket_name, l.object_key)]]
           ELSE /\ l.startCalls < 2
                /\ executions' = executions
                /\ inv' = [inv EXCEPT ![i] =
                       [l EXCEPT !.startCalls = l.startCalls + 1]]
    /\ UNCHANGED <<job, environ, now, run, split>>

\* (mutant: the start is refused while an execution is active, as a start
\* made under a lock or conditional on the check would be)
HandlerStartLocked(i, startOk) ==
    /\ inv[i].pc = "start"
    /\ ~AnyActive(executions)
    /\ LET l == inv[i]
           execution_arn == Len(executions) + 1
       IN  IF startOk
           THEN /\ executions' = Append(executions,
                       [name |-> l.execution_name, status |-> "Executing"])
                /\ inv' = [inv EXCEPT ![i] =
                       [l EXCEPT !.pc = "done", !.startCalls = l.startCalls + 1,
                           !.startOk = TRUE, !.created = execution_arn,
                           !.response = StartedResponse(environ.PIPELINE_NAME,
                               execution_arn, l.bucket_name, l.object_key)]]
           ELSE /\ executions' = executions
                /\ inv' = [inv EXCEPT ![i] =
                       [l EXCEPT !.pc = "done", !.startCalls = l.startCalls + 1,
                           !.response = ExceptionResponse]]
    /\ UNCHANGED <<job, environ, now, run, split>>

\* start_pipeline_execution and the response built from its result; a
\* failed call raises and creates nothing
HandlerStart(i, startOk) ==
    /\ inv[i].pc = "start"
    /\ LET l == inv[i]
           request == [PipelineName |-> environ.PIPELINE_NAME,
                       PipelineExecutionDisplayName |-> l.execution_name,
                       PipelineParameters |-> StartParameters]
           called == [l EXCEPT !.pc = "done",
                               !.startCalls = l.startCalls + 1,
                               !.startOk = startOk,
                               !.startRequest = request]
           execution_arn == Len(executions) + 1
       IN  IF startOk
           THEN /\ executions' = Append(executions,
                       [name |-> request.PipelineExecutionDisplayName,
                        status |-> "Executing"])
                /\ inv' = [inv EXCEPT ![i] =
                       [called EXCEPT !.created = execution_arn,
                           !.response = StartedResponse(environ.PIPELINE_NAME,
                               execution_arn, l.bucket_name, l.object_key)]]
           ELSE /\ executions' = executions
                /\ inv' = [inv EXCEPT ![i] =
                       [called EXCEPT !.response = ExceptionResponse]]
    /\ UNCHANGED <<job, environ, now, run, split>>

\* the invocation has returned; the runtime may reuse the slot
HandlerReturn(i) ==
    /\ inv[i].pc = "done"
    /\ inv' = [inv EXCEPT ![i] = IdleInvocation]
    /\ UNCHANGED <<job, environ, executions, now, run, split>>

\* the service moves an execution along its status vocabulary
Progress(k, s) ==
    /\ k \in 1..Len(executions)
    /\ \/ executions[k].status = "Executing" /\ s \in {"Stopping", "Failed", "Succeeded"}
       \/ executions[k].status = "Stopping" /\ s = "Stopped"
    /\ executions' = [executions EXCEPT ![k].status = s]
    /\ UNCHANGED <<job, environ, now, inv, run, split>>

Tick ==
    /\ now < MaxTicks
    /\ now' = now + 1
    /\ UNCHANGED <<job, environ, executions, inv, run, split>>

(***************************************************************************)
(* src/ml/pipeline_terraform.py: the pipeline definition, and its          *)
(* execution by the orchestration service.  A step starts once every step  *)
(* whose properties it reads has succeeded; a failed step fails the run.   *)
(***************************************************************************)
TuningStepName == "TfTunedXGBoostModel"
EvaluationStepName == "TF_EvaluateXGBoostModel"
ConditionStepName == "CheckAccuracyThreshold"
RegisterStepName == "RegisterBestModel"

\* Pipeline(steps=[tuning_step, evaluation_step, condition_step])
PipelineSteps == <<TuningStepName, EvaluationStepName, ConditionStepName>>

\* if_steps and else_steps of the condition step
IfSteps == {RegisterStepName}
ElseSteps == {}

StepNames ==
    {PipelineSteps[j] : j \in 1..Len(PipelineSteps)} \cup IfSteps \cup ElseSteps

\* the steps whose properties a step's arguments refer to:
\* get_top_model_s3_uri of the tuning step, JsonGet on the evaluation step
PropertyRefs(step) ==
    CASE step = TuningStepName -> {}
      [] step = EvaluationStepName -> {TuningStepName}
      [] step = ConditionStepName -> {EvaluationStepName}
      [] step = RegisterStepName -> {TuningStepName}

\* HyperparameterTuner(max_jobs=9, objective_type="Minimize")
MaxJobs == 9

\* final validation:mlogloss values a trial may report (thousandths)
Losses == {120, 350}

\* objective_type = "Minimize": a is ranked before b
Better(a, b) == a < b

\* top_k of get_top_model_s3_uri
TopK == 0

\* the training job at rank top_k (0 is the best) of the tuning step's
\* jobs ordered by objective, ties by launch order
TopModel(trials, top_k) ==
    CHOOSE j \in 1..Len(trials) :
        Cardinality({h \in 1..Len(trials) :
            \/ Better(trials[h], trials[j])
            \/ (trials[h] = trials[j] /\ h < j)}) = top_k

\* accuracy_score(y, preds_labels) of evaluate.py, as a fraction
Accuracy(correct, total) == [num |-> correct, den |-> total]

\* (mutant: a strict comparison)
accuracy_condition_Strict(report) ==
    report.accuracy.num * 100 > 90 * report.accuracy.den

\* ConditionGreaterThanOrEqualTo(left=JsonGet("accuracy"), right=0.90)
accuracy_condition(report) == report.accuracy.num * 100 >= 90 * report.accuracy.den

NoReport == [written |-> FALSE, accuracy |-> Accuracy(0, 1)]

IdleRun ==
    [status |-> "NotStarted",
     steps |-> [st \in StepNames |-> "Pending"],
     trials |-> <<>>, modelInput |-> 0, report |-> NoReport,
     outcome |-> "none", registered |-> 0]

StepReady(step) ==
    /\ run.status = "Executing"
    /\ run.steps[step] = "Pending"
    /\ \A d \in PropertyRefs(step) : run.steps[d] = "Succeeded"

\* the service starts an execution of the pipeline
RunStart ==
    /\ run.status = "NotStarted"
    /\ run' = [run EXCEPT !.status = "Executing"]
    /\ UNCHANGED <<job, environ, executions, now, inv, split>>

StepStart(step) ==
    /\ step \in {TuningStepName, EvaluationStepName}
    /\ StepReady(step)
    /\ run' = [run EXCEPT !.steps[step] = "Executing",
                  !.modelInput = IF step = EvaluationStepName
                                 THEN TopModel(run.trials, TopK) ELSE @]
    /\ UNCHANGED <<job, environ, executions, now, inv, split>>

\* a training job of the tuning step ends with its objective value
TrialComplete(loss) ==
    /\ run.status = "Executing"
    /\ run.steps[TuningStepName] = "Executing"
    /\ Len(run.trials) < MaxJobs
    /\ run' = [run EXCEPT !.trials = Append(@, loss)]
    /\ UNCHANGED <<job, environ, executions, now, inv, split>>

TuningFinish ==
    /\ run.status = "Executing"
    /\ run.steps[TuningStepName] = "Executing"
    /\ Len(run.trials) = MaxJobs
    /\ run' = [run EXCEPT !.steps[TuningStepName] = "Succeeded"]
    /\ UNCHANGED <<job, environ, executions, now, inv, split>>

\* evaluate.py scores `correct` of the MaxTest test rows right and writes
\* evaluation.json
EvaluationFinish(correct) ==
    /\ run.status = "Executing"
    /\ run.steps[EvaluationStepName] = "Executing"
    /\ run' = [run EXCEPT !.steps[EvaluationStepName] = "Succeeded",
                  !.report = [written |-> TRUE,
                              accuracy |-> Accuracy(correct, MaxTest)]]
    /\ UNCHANGED <<job, environ, executions, now, inv, split>>

\* a tuning or evaluation job fails: the run fails
StepFail(step) ==
    /\ step \in {TuningStepName, EvaluationStepName}
    /\ run.status = "Executing"
    /\ run.steps[step] = "Executing"
    /\ run' = [run EXCEPT !.steps[step] = "Failed", !.status = "Failed"]
    /\ UNCHANGED <<job, environ, executions, now, inv, split>>

\* the condition step reads accuracy out of the report and picks a branch
ConditionEvaluate ==
    /\ StepReady(ConditionStepName)
    /\ run' = [run EXCEPT !.steps[ConditionStepName] = "Succeeded",
                  !.outcome = IF accuracy_condition(run.report)
                              THEN "true" ELSE "false"]
    /\ UNCHANGED <<job, environ, executions, now, inv, split>>

\* the steps of the branch the condition picked
Branch == IF run.outcome = "true" THEN IfSteps
          ELSE IF run.outcome = "false" THEN ElseSteps ELSE {}

\* RegisterModel: the best training job's artifact becomes a model package
RegisterRun(step) ==
    /\ step = RegisterStepName
    /\ step \in Branch
    /\ StepReady(step)
    /\ run' = [run EXCEPT !.steps[step] = "Succeeded",
                  !.registered = TopModel(run.trials, TopK)]
    /\ UNCHANGED <<job, environ, executions, now, inv, split>>

\* every step of the pipeline and of the picked branch has succeeded
RunComplete ==
    /\ run.status = "Executing"
    /\ \A j \in 1..Len(PipelineSteps) : run.steps[PipelineSteps[j]] = "Succeeded"
    /\ \A st \in Branch : run.steps[st] = "Succeeded"
    /\ run' = [run EXCEPT !.status = "Succeeded"]
    /\ UNCHANGED <<job, environ, executions, now, inv, split>>

(***************************************************************************)
(* src/ml/prepare_data.py: prepare_three_way_split().  Ratios are in       *)
(* thousandths.  The local filesystem is the input file, the output        *)
(* directory and the partition files written into it; the remote store is  *)
(* the sequence of uploaded keys.                                          *)
(***************************************************************************)
train_ratio == 600
val_ratio == 200
test_ratio == 200

\* label_mapping
KnownLabels == {"Iris-setosa", "Iris-versicolor", "Iris-virginica"}

\* Species values a raw dataset may hold
LabelValues == KnownLabels \cup {"Iris-unknown"}

\* raw datasets: whether the Species and Id columns exist, rows per label
Datasets ==
    [hasSpecies : BOOLEAN, hasId : BOOLEAN,
     counts : [LabelValues -> 0..MaxPerClass]]

EmptyDataset ==
    [hasSpecies |-> TRUE, hasId |-> TRUE, counts |-> [l \in LabelValues |-> 0]]

\* split_data absent, a directory, or an existing regular file of that name
OutputDirStates == {"absent", "dir", "file"}

SplitState(inputExists, outdir, dataset) ==
    [pc |-> "idle", error |-> "", inputExists |-> inputExists,
     outdir |-> outdir, outdirBefore |-> outdir, dataset |-> dataset,
     parts |-> [train |-> 0, validation |-> 0, test |-> 0],
     written |-> <<>>, uploaded |-> <<>>]

IdleSplit == SplitState(FALSE, "absent", EmptyDataset)

RECURSIVE SumOver(_, _)
SumOver(f, S) ==
    IF S = {} THEN 0
    ELSE LET x == CHOOSE y \in S : TRUE IN f[x] + SumOver(f, S \ {x})

\* abs(train_ratio + val_ratio + test_ratio - 1.0) > 0.001
RatiosInvalid ==
    LET d == train_ratio + val_ratio + test_ratio - 1000
    IN  (IF d < 0 THEN 0 - d ELSE d) > 1

\* train_test_split sizes for a float test_size num/den: n_test is the
\* ceiling of n * test_size, n_train the rest
TestSize(n, num, den) == (n * num + den - 1) \div den

\* train_test_split(..., stratify=labels) raises ValueError unless there is
\* a row to train on, every class present has two members and both sides
\* can hold one row of every class
StratifiedSplitOk(counts, num, den) ==
    LET n == SumOver(counts, KnownLabels)
        classes == {l \in KnownLabels : counts[l] > 0}
        n_test == TestSize(n, num, den)
        n_train == n - n_test
    IN  /\ n > 0 /\ n_train > 0
        /\ \A l \in classes : counts[l] >= 2
        /\ n_train >= Cardinality(classes)
        /\ n_test >= Cardinality(classes)

\* the per-class sizes a stratified split may give the training side: each
\* class's share of n_train rounded down or up
TrainAllocations(counts, n_train) ==
    LET n == SumOver(counts, KnownLabels)
    IN  {a \in [KnownLabels -> 0..MaxPerClass] :
            /\ \A l \in KnownLabels :
                  /\ a[l] >= (counts[l] * n_train) \div n
                  /\ a[l] <= (counts[l] * n_train + n - 1) \div n
            /\ SumOver(a, KnownLabels) = n_train}

\* os.path.join(output_dir, ...) of the three partitions, in writing order
PartitionFiles ==
    <<"split_data/iris_train.csv", "split_data/iris_validation.csv",
      "split_data/iris_test.csv">>

\* the keys of the uploads, in upload order
UploadKeys ==
    <<"data/train/iris.csv", "data/validation/iris.csv", "data/test/iris.csv">>

SplitRaise(error) == [split EXCEPT !.pc = "raised", !.error = error]

\* os.makedirs(output_dir, exist_ok=True), the directory not being a file
SplitMakedirs(st) == [st EXCEPT !.outdir = "dir"]

\* the validation without the check of the mapped labels at lines 55-56
SplitValidate_NoLabelCheck ==
    LET ds == split.dataset
        made == [split EXCEPT !.outdir = "dir"]
    IN  IF RatiosInvalid THEN SplitRaise("ValueError: ratios")
        ELSE IF split.outdir = "file" THEN SplitRaise("FileExistsError")
        ELSE IF ~split.inputExists THEN [made EXCEPT !.pc = "returned"]
        ELSE IF ~ds.hasSpecies
        THEN [made EXCEPT !.pc = "raised", !.error = "ValueError: Species"]
        ELSE [made EXCEPT !.pc = "split"]

\* lines 19-63: ratio check, makedirs, load, validation of the labels; the
\* state the call ends in, or pc = "split" when the data is accepted
SplitValidate ==
    LET ds == split.dataset
        made == SplitMakedirs(split)
    IN  IF RatiosInvalid THEN SplitRaise("ValueError: ratios")
        ELSE IF split.outdir = "file" THEN SplitRaise("FileExistsError")
        ELSE IF ~split.inputExists THEN [made EXCEPT !.pc = "returned"]
        ELSE IF ~ds.hasSpecies
        THEN [made EXCEPT !.pc = "raised", !.error = "ValueError: Species"]
        ELSE IF ds.counts["Iris-unknown"] > 0
        THEN [made EXCEPT !.pc = "raised", !.error = "ValueError: labels"]
        ELSE [made EXCEPT !.pc = "split"]

\* lines 19-87: validation, then the two stratified splits
SplitPrepare ==
    /\ split.pc = "idle"
    /\ LET validated == SplitValidate
           counts == [l \in KnownLabels |-> split.dataset.counts[l]]
           n == SumOver(counts, KnownLabels)
           n_test == TestSize(n, test_ratio, 1000)
           n_val == TestSize(n - n_test, val_ratio, train_ratio + val_ratio)
           failed == [validated EXCEPT !.pc = "raised",
                                       !.error = "ValueError: split"]
       IN  IF validated.pc # "split" THEN split' = validated
           ELSE IF ~StratifiedSplitOk(counts, test_ratio, 1000)
           THEN split' = failed
           ELSE \E trainVal \in TrainAllocations(counts, n - n_test) :
                  split' =
                    IF ~StratifiedSplitOk(trainVal, val_ratio,
                                          train_ratio + val_ratio)
                    THEN failed
                    ELSE [validated EXCEPT !.pc = "write",
                             !.parts = [train |-> n - n_test - n_val,
                                        validation |-> n_val, test |-> n_test]]
    /\ UNCHANGED <<job, environ, executions, now, inv, run>>

\* lines 97-99: the next partition file is written
SplitWrite ==
    /\ split.pc = "write"
    /\ LET k == Len(split.written) + 1
       IN  split' = [split EXCEPT !.written = Append(@, PartitionFiles[k]),
                        !.pc = IF k = Len(PartitionFiles) THEN "upload" ELSE "write"]
    /\ UNCHANGED <<job, environ, executions, now, inv, run>>

\* lines 121-123: the next upload; a failed upload raises
SplitUpload(ok) ==
    /\ split.pc = "upload"
    /\ LET k == Len(split.uploaded) + 1
       IN  split' =
             IF ok
             THEN [split EXCEPT !.uploaded = Append(@, UploadKeys[k]),
                      !.pc = IF k = Len(UploadKeys) THEN "returned" ELSE "upload"]
             ELSE SplitRaise("S3UploadFailedError")
    /\ UNCHANGED <<job, environ, executions, now, inv, run>>


(***************************************************************************)
(* src/ml/training/train.py: one run of the script on a readable training  *)
(* partition.  Standard output is the sequence of the lines printed that   *)
(* carry a metric or a warning; a line is its text before the value, the   *)
(* value (a loss in thousandths, or a count) and its text after it.        *)
(***************************************************************************)
ValidationPath == "/opt/ml/input/data/validation"

\* os.environ of the training container: SM_CHANNEL_VALIDATION unset,
\* empty, or the channel's directory
JobEnvirons ==
    { [SM_CHANNEL_TRAIN |-> "/opt/ml/input/data/train"],
      [SM_CHANNEL_TRAIN |-> "/opt/ml/input/data/train",
       SM_CHANNEL_VALIDATION |-> ""],
      [SM_CHANNEL_TRAIN |-> "/opt/ml/input/data/train",
       SM_CHANNEL_VALIDATION |-> ValidationPath] }

\* --validation-dir: its default None, or a directory
NoneArg == [present |-> FALSE, value |-> ""]

ValidationDirArgs == {NoneArg, [present |-> TRUE, value |-> ValidationPath]}

\* os.environ.get(k, default)
EnvGetDefault(env, k, default) ==
    IF k \in DOMAIN env THEN [present |-> TRUE, value |-> env[k]]
    ELSE default

\* (mutant: a directory is enough, its listing is not looked at)
HasValidationFiles_AnyDir(dirExists, files) == dirExists

\* lines 58-63: `if validation_dir`, os.path.exists, `if val_files`
HasValidationFiles(dirExists, files) == dirExists /\ files > 0

Line(text, value, suffix) == [text |-> text, value |-> value, suffix |-> suffix]

\* print(f"validation:mlogloss={final_mlogloss};")
ObjectiveLine(loss) == Line("validation:mlogloss=", loss, ";")

\* print(f"validation:accuracy={val_accuracy}")
AccuracyLine(acc) == Line("validation:accuracy=", acc, "")

\* verbose_eval=True: the evaluation line xgb.train prints for a round
EvalLine(loss) == Line("\tvalidation-mlogloss:", loss, "")

WarningLine(text) == Line(text, 0, "")

JobState(env, arg, dirExists, files, num_round) ==
    [pc |-> "idle", environ |-> env, validation_dir_arg |-> arg,
     dirExists |-> dirExists, files |-> files, num_round |-> num_round,
     evals |-> FALSE, rounds |-> 0, evals_result |-> <<>>,
     stdout |-> <<>>, saved |-> <<>>]

IdleJob ==
    JobState([SM_CHANNEL_TRAIN |-> "/opt/ml/input/data/train"], NoneArg,
             FALSE, 0, 1)

\* lines 51-84: the validation partition is looked for and loaded
TrainLoadValidation ==
    /\ job.pc = "idle"
    /\ LET validation_dir ==
             EnvGetDefault(job.environ, "SM_CHANNEL_VALIDATION",
                           job.validation_dir_arg)
       IN  job' =
             IF Falsy(validation_dir)
             THEN [job EXCEPT !.pc = "train",
                     !.stdout = Append(@, WarningLine("WARNING: No validation directory provided"))]
             ELSE IF ~job.dirExists
             THEN [job EXCEPT !.pc = "train",
                     !.stdout = Append(@, WarningLine("WARNING: Validation directory does not exist"))]
             ELSE IF ~HasValidationFiles(job.dirExists, job.files)
             THEN [job EXCEPT !.pc = "train",
                     !.stdout = Append(@, WarningLine("WARNING: No files found"))]
             ELSE [job EXCEPT !.pc = "train", !.evals = TRUE]
    /\ UNCHANGED <<environ, executions, now, inv, run, split>>

\* lines 103-110: one boosting round of xgb.train; with a validation set
\* the round's mlogloss is recorded in evals_result and printed
TrainRound(loss) ==
    /\ job.pc = "train"
    /\ job.rounds < job.num_round
    /\ job' =
         IF job.evals
         THEN [job EXCEPT !.rounds = @ + 1,
                          !.evals_result = Append(@, loss),
                          !.stdout = Append(@, EvalLine(loss))]
         ELSE [job EXCEPT !.rounds = @ + 1]
    /\ UNCHANGED <<environ, executions, now, inv, run, split>>

\* lines 113-141: after the last round the metrics of the validation set
\* are printed, or the warning that none were computed
TrainReport(acc) ==
    /\ job.pc = "train"
    /\ job.rounds = job.num_round
    /\ job' =
         IF job.evals
         THEN [job EXCEPT !.pc = "save",
                 !.stdout = @ \o <<ObjectiveLine(job.evals_result[Len(job.evals_result)]),
                                   AccuracyLine(acc)>>]
         ELSE [job EXCEPT !.pc = "save",
                 !.stdout = Append(@, WarningLine("WARNING: No validation metrics computed!"))]
    /\ UNCHANGED <<environ, executions, now, inv, run, split>>

\* os.path.join(args.model_dir, "model.bst") with the default --model-dir
ModelPath == "/opt/ml/model/model.bst"

\* lines 143-148: the model is saved (printed: the lines on standard output
\* at the time of save_model), then the path is printed
TrainSave ==
    /\ job.pc = "save"
    /\ job' = [job EXCEPT !.pc = "done",
                 !.saved = Append(@, [path |-> ModelPath,
                                      printed |-> Len(job.stdout)]),
                 !.stdout = Append(@, Line("Model saved to ", 0, ModelPath))]
    /\ UNCHANGED <<environ, executions, now, inv, run, split>>

\* executions started by other means before the first trigger
PreExisting == {<<>>} \cup {<<[name |-> ManualName, status |-> s]>> : s \in Statuses}

Init ==
    /\ environ \in Environs
    /\ executions \in PreExisting
    /\ now = 0
    /\ inv = [i \in Lambdas |-> IdleInvocation]
    /\ run = IdleRun
    /\ job = IdleJob
    /\ split = IdleSplit

Handler(i, cap) ==
    \/ \E ev \in Events : HandlerInvoke(i, ev, cap)
    \/ \E listOk \in BOOLEAN : HandlerCheck(i, listOk)
    \/ \E startOk \in BOOLEAN : HandlerStart(i, startOk)
    \/ HandlerReturn(i)

Next ==
    \/ \E i \in Sequential : Handler(i, MaxExecs)
    \/ \E k \in 1..MaxExecs, s \in Statuses : Progress(k, s)
    \/ Tick

\* the trigger handler, one invocation at a time, against a service whose
\* executions progress and a clock that ticks
Spec == Init /\ [][Next]_vars

\* one status of each kind the listing can tell apart, both active ones
WindowStatuses == {"Executing", "Stopping", "Succeeded"}

RECURSIVE StoresOfLen(_)
\* every store of n executions started by other means
StoresOfLen(n) ==
    IF n = 0 THEN {<<>>}
    ELSE {Append(st, [name |-> ManualName, status |-> s]) :
            st \in StoresOfLen(n - 1), s \in WindowStatuses}

InitWindow ==
    /\ environ = [AWS_REGION |-> "us-east-1", PIPELINE_NAME |-> PipelineName]
    /\ executions \in UNION {StoresOfLen(n) : n \in 0..MaxListed}
    /\ now = 0
    /\ inv = [i \in Lambdas |-> IdleInvocation]
    /\ run = IdleRun
    /\ job = IdleJob
    /\ split = IdleSplit

NextWindow == \E i \in Sequential : Handler(i, MaxListed + 1)

\* one invocation of the handler against every store of up to MaxListed
\* executions: the listing's window of MaxResults is exceeded
SpecWindow == InitWindow /\ [][NextWindow]_vars

InitConcurrent ==
    /\ environ = [AWS_REGION |-> "us-east-1", PIPELINE_NAME |-> PipelineName]
    /\ executions = <<>>
    /\ now = 0
    /\ inv = [i \in Lambdas |-> IdleInvocation]
    /\ run = IdleRun
    /\ job = IdleJob
    /\ split = IdleSplit

NextConcurrent ==
    \/ \E i \in Lambdas : Handler(i, Cardinality(Lambdas))
    \/ \E k \in 1..Cardinality(Lambdas), s \in Statuses : Progress(k, s)
    \/ Tick

\* the handler invoked concurrently: the steps of the invocations interleave
\* freely, the service and the clock move between them
SpecConcurrent == InitConcurrent /\ [][NextConcurrent]_vars

InitPipeline ==
    /\ environ = [AWS_REGION |-> "us-east-1", PIPELINE_NAME |-> PipelineName]
    /\ executions = <<>>
    /\ now = 0
    /\ inv = [i \in Lambdas |-> IdleInvocation]
    /\ run = IdleRun
    /\ job = IdleJob
    /\ split = IdleSplit

NextPipeline ==
    \/ RunStart
    \/ \E step \in StepNames : StepStart(step)
    \/ \E loss \in Losses : TrialComplete(loss)
    \/ TuningFinish
    \/ \E correct \in 0..MaxTest : EvaluationFinish(correct)
    \/ \E step \in StepNames : StepFail(step)
    \/ ConditionEvaluate
    \/ \E step \in StepNames : RegisterRun(step)
    \/ RunComplete

\* one run of the defined pipeline
SpecPipeline == InitPipeline /\ [][NextPipeline]_vars

InitSplit ==
    /\ environ = [AWS_REGION |-> "us-east-1", PIPELINE_NAME |-> PipelineName]
    /\ executions = <<>>
    /\ now = 0
    /\ inv = [i \in Lambdas |-> IdleInvocation]
    /\ run = IdleRun
    /\ job = IdleJob
    /\ split \in {SplitState(e, d, ds) :
                    e \in BOOLEAN, d \in OutputDirStates, ds \in Datasets}

NextSplit ==
    \/ SplitPrepare
    \/ SplitWrite
    \/ \E ok \in BOOLEAN : SplitUpload(ok)

\* one call of prepare_three_way_split() on every filesystem and dataset
SpecSplit == InitSplit /\ [][NextSplit]_vars

InitTrain ==
    /\ environ = [AWS_REGION |-> "us-east-1", PIPELINE_NAME |-> PipelineName]
    /\ executions = <<>>
    /\ now = 0
    /\ inv = [i \in Lambdas |-> IdleInvocation]
    /\ run = IdleRun
    /\ split = IdleSplit
    /\ job \in {JobState(env, arg, d, f, n) :
                  env \in JobEnvirons, arg \in ValidationDirArgs,
                  d \in BOOLEAN, f \in 0..MaxValFiles, n \in 1..MaxRounds}

NextTrain ==
    \/ TrainLoadValidation
    \/ \E loss \in Losses : TrainRound(loss)
    \/ \E acc \in {0, MaxValFiles} : TrainReport(acc)
    \/ TrainSave

\* one run of train.py for every configuration of the validation channel
SpecTrain == InitTrain /\ [][NextTrain]_vars

(***************************************************************************)
(* Properties of the trigger handler                                       *)
(***************************************************************************)
Configured == "PIPELINE_NAME" \in DOMAIN environ /\ environ.PIPELINE_NAME # ""

Returned(i) == inv[i].pc = "done"

WellFormed(i) == inv[i].event \in WellFormedEvents

Malformed(i) == inv[i].event \in MalformedEvents

HasField(r, f) == f \in DOMAIN r

\* the skip response for invocation i's trigger
IsSkip(i) ==
    LET r == inv[i].response
    IN  /\ r.statusCode = 200
        /\ HasField(r.body, "message")
        /\ r.body.message = "Skipped - pipeline already executing"
        /\ r.body.pipeline_name = PipelineName
        /\ r.body.trigger = [bucket |-> inv[i].event.detail.bucket.name,
                             key |-> inv[i].event.detail.object.key]
        /\ ~HasField(r.body, "execution_arn")

\* the success response for invocation i's trigger
IsStarted(i) ==
    LET r == inv[i].response
    IN  /\ r.statusCode = 200
        /\ DOMAIN r.body = {"message", "pipeline_name", "execution_arn", "trigger"}
        /\ r.body.message = "Pipeline execution started"
        /\ r.body.pipeline_name = PipelineName
        /\ r.body.execution_arn = inv[i].created
        /\ r.body.execution_arn \in 1..Len(executions)
        /\ r.body.trigger = [bucket |-> inv[i].event.detail.bucket.name,
                             key |-> inv[i].event.detail.object.key]

IsError(i, code) ==
    /\ inv[i].response.statusCode = code
    /\ DOMAIN inv[i].response.body = {"error"}

DigitChars == {"0", "1", "2", "3", "4", "5", "6", "7", "8", "9"}

\* auto-trigger-\d{8}-\d{6}
MatchesAutoTrigger(name) ==
    /\ Len(name) = 28
    /\ SubSeq(name, 1, 13) = AutoTriggerPrefix
    /\ \A p \in 14..21 : name[p] \in DigitChars
    /\ name[22] = "-"
    /\ \A p \in 23..28 : name[p] \in DigitChars

\* what the UTC clock shows at the readings the model explores first
ExpectedStamp(t) ==
    CASE t = 0 -> <<"2","0","2","5","1","2","3","1","-","2","3","5","9","5","8">>
      [] t = 1 -> <<"2","0","2","5","1","2","3","1","-","2","3","5","9","5","9">>
      [] t = 2 -> <<"2","0","2","6","0","1","0","1","-","0","0","0","0","0","0">>
      [] t = 3 -> <<"2","0","2","6","0","1","0","1","-","0","0","0","0","0","1">>
      [] OTHER -> <<>>

\* C1 as stated: PIPELINE_NAME set, a well-formed event, the listing
\* succeeds and ANY execution of the pipeline is Executing or Stopping at
\* the listing: the handler returns the skip response (200, "Skipped -
\* pipeline already executing", pipeline_name, the trigger's bucket/key) and
\* has not called start_pipeline_execution.
C1_AnyActiveSkips ==
    \A i \in Lambdas :
        (Returned(i) /\ Configured /\ WellFormed(i) /\ inv[i].listCalls = 1
            /\ inv[i].listOk /\ inv[i].activeAny)
        => (IsSkip(i) /\ inv[i].startCalls = 0)

\* C1 amended: the same with the active execution among the MaxResults = 5
\* most recently created executions, the ones the listing returns.
C1_RecentActiveSkips ==
    \A i \in Lambdas :
        /\ (inv[i].listCalls = 1 /\ inv[i].listOk /\ inv[i].activeRecent)
            => Returned(i)
        /\ (Returned(i) /\ Configured /\ WellFormed(i) /\ inv[i].listCalls = 1
              /\ inv[i].listOk /\ inv[i].activeRecent)
            => (IsSkip(i) /\ inv[i].startCalls = 0)

\* C1 witness: a skip decided by a Stopping execution that is the oldest of
\* the five listed, in a store of more than five
C1_Witness ==
    /\ Len(executions) > 5
    /\ executions[Len(executions) - 4].status = "Stopping"
    /\ \A k \in 1..Len(executions) :
          k # Len(executions) - 4 => executions[k].status = "Succeeded"
    /\ Returned(1) /\ inv[1].listOk /\ IsSkip(1) /\ inv[1].startCalls = 0

\* C2 as stated: PIPELINE_NAME set, a well-formed event and no execution
\* active at the dedup check: the handler calls start_pipeline_execution
\* exactly once with display name auto-trigger-<UTC YYYYMMDD-HHMMSS> and the
\* InstanceType parameter and returns 200 with a body carrying the non-empty
\* execution_arn of that call, pipeline_name, the trigger's bucket/key and
\* the execution name matching auto-trigger-\d{8}-\d{6}.
C2_StartReturns200WithName ==
    \A i \in Lambdas :
        (Returned(i) /\ Configured /\ WellFormed(i) /\ inv[i].listCalls = 1
            /\ ~inv[i].activeAny)
        => /\ inv[i].startCalls = 1
           /\ MatchesAutoTrigger(inv[i].startRequest.PipelineExecutionDisplayName)
           /\ inv[i].startRequest.PipelineParameters = StartParameters
           /\ inv[i].response.statusCode = 200
           /\ HasField(inv[i].response.body, "execution_arn")
           /\ inv[i].response.body.execution_arn >= 1
           /\ HasField(inv[i].response.body, "execution_name")

\* C2 amended: under the same conditions the handler calls
\* start_pipeline_execution exactly once, for the configured pipeline, with
\* the InstanceType = ml.m5.large parameter and the display name
\* auto-trigger-<UTC YYYYMMDD-HHMMSS of the clock read after the check>,
\* which matches auto-trigger-\d{8}-\d{6}; if that call succeeds it returns
\* 200 with body exactly {message, pipeline_name, execution_arn, trigger},
\* execution_arn being the one the call returned (the body does not carry
\* the execution name); if that call fails it returns 500 with an error.
C2_StartOnceNamedByClock ==
    \A i \in Lambdas :
        (Returned(i) /\ Configured /\ WellFormed(i) /\ inv[i].listCalls = 1
            /\ ~inv[i].activeAny)
        => /\ inv[i].startCalls = 1
           /\ inv[i].startRequest.PipelineName = PipelineName
           /\ inv[i].startRequest.PipelineParameters
                = <<[Name |-> "InstanceType", Value |-> "ml.m5.large"]>>
           /\ MatchesAutoTrigger(inv[i].startRequest.PipelineExecutionDisplayName)
           /\ SubSeq(inv[i].startRequest.PipelineExecutionDisplayName, 14, 28)
                = ExpectedStamp(inv[i].stampedAt)
           /\ inv[i].startOk =>
                /\ IsStarted(i)
                /\ executions[inv[i].created].name
                     = inv[i].startRequest.PipelineExecutionDisplayName
                /\ ~HasField(inv[i].response.body, "execution_name")
           /\ ~inv[i].startOk => IsError(i, 500)

\* C2 witness: an execution started after the year rolled over, answered 200
C2_Witness ==
    /\ Returned(1) /\ Configured /\ WellFormed(1) /\ inv[1].listOk
    /\ ~inv[1].activeAny /\ inv[1].stampedAt = 2 /\ inv[1].startOk
    /\ IsStarted(1)

C4_StatusCodeVocabulary ==
    \A i \in Lambdas :
        Returned(i) =>
           /\ inv[i].response.statusCode \in {200, 400, 500}
           /\ inv[i].response.statusCode = 400
                => (Configured /\ Malformed(i) /\ inv[i].startCalls = 0
                      /\ inv[i].created = 0)
           /\ inv[i].response.statusCode = 200
                => \/ (inv[i].startCalls = 1 /\ inv[i].startOk /\ IsStarted(i))
                   \/ (inv[i].startCalls = 0 /\ IsSkip(i))
           /\ ~Configured => inv[i].response.statusCode = 500
           /\ (inv[i].startCalls > 0 /\ ~inv[i].startOk)
                => inv[i].response.statusCode = 500
           /\ inv[i].startCalls > 0 => inv[i].response.statusCode # 400

\* C4 witness: a start call that failed, answered 500
C4_Witness ==
    /\ Returned(1) /\ inv[1].startCalls = 1 /\ ~inv[1].startOk
    /\ IsError(1, 500)

\* C5: PIPELINE_NAME unset or empty: for every event the handler returns
\* 500 with an error field, without inspecting the event and without calling
\* list_pipeline_executions or start_pipeline_execution.
C5_MissingConfigIs500First ==
    \A i \in Lambdas :
        (Returned(i) /\ ~Configured)
        => /\ IsError(i, 500)
           /\ ~inv[i].inspected
           /\ inv[i].listCalls = 0 /\ inv[i].startCalls = 0

\* C5 witness: PIPELINE_NAME set to the empty string, a well-formed event
C5_Witness ==
    /\ "PIPELINE_NAME" \in DOMAIN environ /\ environ.PIPELINE_NAME = ""
    /\ Returned(1) /\ WellFormed(1) /\ IsError(1, 500)

\* C6: when list_pipeline_executions fails, is_pipeline_running is False
\* and the handler goes on to call start_pipeline_execution, also when an
\* execution is active; the failed check alone gives neither a skip nor an
\* error response.
C6_FailOpen ==
    \A i \in Lambdas :
        (inv[i].listCalls = 1 /\ ~inv[i].listOk)
        => /\ inv[i].pc \in {"start", "done"}
           /\ inv[i].pc = "start" => inv[i].response = NoResponse
           /\ Returned(i) =>
                /\ inv[i].startCalls = 1
                /\ ~IsSkip(i)
                /\ inv[i].startOk => IsStarted(i)
                /\ inv[i].response.statusCode # 200 => ~inv[i].startOk

\* C6 witness: a second execution started while one was active
C6_Witness ==
    /\ Returned(1) /\ inv[1].listCalls = 1 /\ ~inv[1].listOk
    /\ inv[1].activeAny /\ inv[1].startOk /\ IsStarted(1)

\* C7: an invocation calls start_pipeline_execution at most once; when that
\* call fails the handler returns 500 with an error field, does not call it
\* again, and the call leaves the set of executions as it was.
C7_NoRetry ==
    [][\A i \in Lambdas :
          /\ inv'[i].startCalls <= 1
          /\ (inv'[i].startCalls > inv[i].startCalls /\ ~inv'[i].startOk)
              => /\ executions' = executions
                 /\ inv'[i].pc = "done"
                 /\ inv'[i].response.statusCode = 500
                 /\ DOMAIN inv'[i].response.body = {"error"}
          /\ (inv[i].pc = "done" /\ inv[i].startCalls = 1)
              => inv'[i].pc \in {"done", "idle"}]_vars

\* C7 witness: the only start call failed and the store is still empty
C7_Witness ==
    /\ Returned(1) /\ inv[1].startCalls = 1 /\ ~inv[1].startOk
    /\ IsError(1, 500) /\ executions = <<>>

\* C8 as stated: any two executions started by the handler carry different
\* auto-trigger-<timestamp> display names.
C8_NamesUnique ==
    \A j, k \in 1..Len(executions) :
        (j # k /\ executions[j].name # ManualName /\ executions[k].name # ManualName)
        => executions[j].name # executions[k].name

\* the executions in an active status
ActiveExecutions ==
    {k \in 1..Len(executions) : executions[k].status \in {"Executing", "Stopping"}}

\* invocation i listed the executions, successfully, and none was active
ObservedNotRunning(i) ==
    inv[i].listCalls = 1 /\ inv[i].listOk /\ ~inv[i].activeAny

\* C13: the dedup check and the start call are separate steps with no lock
\* between them: an invocation that has passed the check can always make
\* its start call, whatever the other invocations have started since, and
\* its start is decided by the one listing it made.  So two concurrent
\* invocations for distinct events can both observe "not running" and both
\* start an execution (the witness): at most one active execution is not
\* an invariant of concurrent invocations.
C13_CheckThenStartNotAtomic ==
    \A i \in Lambdas :
        inv[i].pc = "start"
        => /\ ENABLED HandlerStart(i, TRUE)
           /\ inv[i].listCalls = 1
           /\ inv[i].startCalls = 0
           /\ inv[i].listOk => ~inv[i].activeRecent

\* both invocations, for distinct events, observed no active execution and
\* both started one: two executions are active at once
C13_Witness ==
    /\ \A i \in Lambdas :
          Returned(i) /\ WellFormed(i) /\ ObservedNotRunning(i) /\ IsStarted(i)
    /\ inv[1].event # inv[2].event
    /\ inv[1].created # inv[2].created
    /\ Cardinality(ActiveExecutions) = 2

(***************************************************************************)
(* Properties of the pipeline definition                                   *)
(***************************************************************************)
\* the report's accuracy is at least 0.90
ReportAtLeast90 == run.report.accuracy.num * 10 >= 9 * run.report.accuracy.den

\* trial j reported the lowest validation:mlogloss of the tuning step
IsBestTrial(j) ==
    /\ j \in 1..Len(run.trials)
    /\ \A h \in 1..Len(run.trials) : run.trials[j] <= run.trials[h]

\* C9: in every run evaluation starts only after tuning has finished and
\* reads the best trial's artifact; the accuracy check runs only after
\* evaluation has written its report; the model is registered if and only
\* if the report's accuracy is >= 0.90; below 0.90 nothing is registered and
\* the run still completes successfully.
C9_StepChaining ==
    /\ run.steps[EvaluationStepName] # "Pending"
        => /\ run.steps[TuningStepName] = "Succeeded"
           /\ Len(run.trials) = 9
           /\ IsBestTrial(run.modelInput)
    /\ run.report.written <=> run.steps[EvaluationStepName] = "Succeeded"
    /\ run.steps[ConditionStepName] # "Pending"
        => (run.steps[EvaluationStepName] = "Succeeded" /\ run.report.written)
    /\ run.registered # 0
        => /\ run.steps[ConditionStepName] = "Succeeded"
           /\ ReportAtLeast90
           /\ IsBestTrial(run.registered)
    /\ run.status = "Succeeded" => (run.registered # 0 <=> ReportAtLeast90)
    /\ (run.steps[ConditionStepName] = "Succeeded" /\ ~ReportAtLeast90)
        => /\ run.registered = 0
           /\ run.steps[RegisterStepName] = "Pending"
           /\ run.status \in {"Executing", "Succeeded"}
           /\ run.status = "Executing" => ENABLED RunComplete
    /\ (run.steps[ConditionStepName] = "Succeeded" /\ ReportAtLeast90)
        => /\ run.status \in {"Executing", "Succeeded"}
           /\ run.registered = 0 => ENABLED RegisterRun(RegisterStepName)
           /\ run.registered # 0
                => (run.status = "Succeeded" \/ ENABLED RunComplete)

\* C9 witness: a run that ended Succeeded with the model registered on an
\* accuracy of exactly 0.90, the best trial not being the first one launched
C9_Witness ==
    /\ run.status = "Succeeded"
    /\ run.report.written /\ run.report.accuracy = [num |-> 9, den |-> 10]
    /\ run.registered > 1 /\ run.registered = run.modelInput

(***************************************************************************)
(* Properties of the data splitter                                         *)
(***************************************************************************)
SplitEnded == split.pc \in {"returned", "raised"}

\* C10 as stated: when the raw dataset file does not exist,
\* prepare_three_way_split() returns normally and changes nothing: the
\* local filesystem is as it was (nothing created, nothing written) and
\* nothing is uploaded.
C10_MissingInputNoOp ==
    (SplitEnded /\ ~split.inputExists)
    => /\ split.pc = "returned"
       /\ split.outdir = split.outdirBefore
       /\ split.written = <<>>
       /\ split.uploaded = <<>>

\* the call has gone past its validation (it ended, or is writing/uploading)
SplitActed == split.pc # "idle"

\* the three conditions the splitter validates, stated on the inputs
RatiosOff == train_ratio + val_ratio + test_ratio \notin 999..1001

SpeciesMissing == split.inputExists /\ ~split.dataset.hasSpecies

UnknownLabel ==
    /\ split.inputExists
    /\ split.dataset.hasSpecies
    /\ \E l \in LabelValues \ {"Iris-setosa", "Iris-versicolor", "Iris-virginica"} :
          split.dataset.counts[l] > 0

\* an upload has been attempted: one succeeded, or one failed and raised
UploadAttempted ==
    split.uploaded # <<>> \/ split.error = "S3UploadFailedError"

\* C11: when the ratios do not sum to 1.0 within 0.001, or the loaded
\* dataset has no Species column, or some row's label is not one of the
\* three known class names, prepare_three_way_split() raises, having
\* written no partition file and uploaded nothing; and no upload is
\* attempted before all three partition files are written.
C11_FailFastNoPartialOutput ==
    /\ (SplitActed /\ (RatiosOff \/ SpeciesMissing \/ UnknownLabel))
       => /\ split.pc = "raised"
          /\ split.written = <<>>
          /\ split.uploaded = <<>>
    /\ UploadAttempted
       => split.written =
            <<"split_data/iris_train.csv", "split_data/iris_validation.csv",
              "split_data/iris_test.csv">>

\* a dataset with an unknown label was loaded and rejected
C11_Witness ==
    /\ UnknownLabel
    /\ split.pc = "raised"
    /\ split.error = "ValueError: labels"
    /\ split.outdir = "dir"

(***************************************************************************)
(* Properties of the training run                                          *)
(***************************************************************************)
\* the directory the run was given: the channel's variable when it is set,
\* else the --validation-dir argument; "" when neither names one
GivenValidationDir ==
    IF "SM_CHANNEL_VALIDATION" \in DOMAIN job.environ
    THEN job.environ["SM_CHANNEL_VALIDATION"]
    ELSE IF job.validation_dir_arg.present THEN job.validation_dir_arg.value
    ELSE ""

\* a validation directory is configured, exists and holds a file
ValidationAvailable ==
    GivenValidationDir # "" /\ job.dirExists /\ job.files >= 1

\* positions on standard output of the line validation:mlogloss=<value>;
ObjectiveLines ==
    {k \in 1..Len(job.stdout) :
        job.stdout[k].text = "validation:mlogloss=" /\ job.stdout[k].suffix = ";"}

TrainingDone == job.pc = "done"

\* C12: a training run prints validation:mlogloss=<value>; exactly once if
\* a validation directory is configured, exists and holds a file, and never
\* otherwise; with or without validation data the run goes on to its end,
\* where the model has been saved to <model-dir>/model.bst; and the metric
\* line, when printed, is on standard output before the model is saved.
C12_ObjectiveLineOnceIffValidation ==
    /\ Cardinality(ObjectiveLines) <= 1
    /\ ObjectiveLines # {} => ValidationAvailable
    /\ ~TrainingDone => ENABLED NextTrain
    /\ job.saved # <<>> => TrainingDone
    /\ TrainingDone
       => /\ Cardinality(ObjectiveLines) = 1 <=> ValidationAvailable
          /\ Len(job.saved) = 1
          /\ job.saved[1].path = "/opt/ml/model/model.bst"
          /\ \A k \in ObjectiveLines : k <= job.saved[1].printed

\* a run with validation data ended: metric line printed, model saved
C12_Witness ==
    /\ TrainingDone
    /\ ValidationAvailable
    /\ Cardinality(ObjectiveLines) = 1
    /\ Len(job.saved) = 1

====
